---- MODULE Spec2Model ----
(***************************************************************************)
(* Model of image_chan/image.py: the Image profile base class with its     *)
(* Icon and Wallpaper variants, and the Bulk batch resizer.                *)
(*                                                                         *)
(* A decoded PIL image is abstracted to the attributes the code reads:     *)
(* mode, format (source format tag), is_animated, the minimum of its       *)
(* alpha band (getextrema()[-1][0]) and its dimensions.                    *)
(***************************************************************************)
EXTENDS Integers, Sequences, FiniteSets, TLC

VARIABLES p, last, objs, bulk, disk

vars == <<p, last, objs, bulk, disk>>

(* ------------------------------ bounds --------------------------------- *)
MaxSaves == 1       \* encodings kept in one in-memory buffer
MaxObjs == 2        \* length of the sequence handed to Bulk
MaxSide == 2        \* largest side of a target size

(* ----------------------------- data model ------------------------------ *)
NONE == "NONE"                       \* Python None (image.format absent)
OPAQUE == 255
AlphaValues == {128, OPAQUE}
Modes == {"RGB", "RGBA", "P", "L"}
SourceFormats == {NONE, "JPEG", "PNG", "WEBP", "GIF"}
Sizes == {<<s, s>> : s \in 1..MaxSide}
SrcDims == <<3, 3>>

\* PIL image handles, as seen by this module.  Only RGBA images carry an
\* alpha band; for the other modes alpha is recorded as OPAQUE.
Images ==
    {[mode |-> m, format |-> f, animated |-> a, alpha |-> al, dims |-> SrcDims] :
        m \in Modes, f \in SourceFormats, a \in BOOLEAN, al \in AlphaValues}
    \ {i \in [mode : Modes, format : SourceFormats, animated : BOOLEAN,
              alpha : AlphaValues, dims : {SrcDims}] :
          i.mode # "RGBA" /\ i.alpha # OPAQUE}

\* Values a caller passes as `format`: a plain string or a list/tuple.
Str(s) == [isList |-> FALSE, items |-> <<s>>]
List(q) == [isList |-> TRUE, items |-> q]
UNSET == [isList |-> FALSE, items |-> <<>>]   \* attribute _format never set
FormatArgs ==
    {Str("WEBP"),
     List(<<"GIF", "PNG">>), List(<<"PNG", "GIF">>),
     List(<<"JPEG", "PNG">>), List(<<"PNG", "JPEG">>),
     List(<<"WEBP", "GIF">>), List(<<"PNG">>)}

Contains(fmt, s) == \E k \in 1..Len(fmt.items) : fmt.items[k] = s

Variants == {"Icon", "Wallpaper"}

\* Icon.SUPPORTED_IMAGES / Wallpaper.SUPPORTED_IMAGES
SUPPORTED_IMAGES(v) ==
    IF v = "Icon"
    THEN [RGB |-> {"JPEG", "PNG", "WEBP", "GIF"},
          RGBA |-> {"PNG", "GIF", "WEBP"},
          P |-> {"GIF"}]
    ELSE [RGB |-> {"JPEG", "PNG"},
          RGBA |-> {"PNG"}]

SUPPORTED_MODES(v) == DOMAIN SUPPORTED_IMAGES(v)

SUPPORTED_FORMATS(v, img) == SUPPORTED_IMAGES(v)[img.mode]

\* Variant of is_supported that forgets the source-format check.
is_supported_modeonly(v, img) == img.mode \in SUPPORTED_MODES(v)

\* Image.is_supported
is_supported(v, img) ==
    IF img.mode \notin SUPPORTED_MODES(v) THEN FALSE
    ELSE IF img.format # NONE /\ img.format \notin SUPPORTED_FORMATS(v, img) THEN FALSE
    ELSE TRUE

\* module-level is_animated / Image.is_animated
is_animated(img) == img.animated

\* Variant of has_translucent_alpha with the comparison off by one.
has_translucent_alpha_le(img) == img.alpha <= OPAQUE

\* Image.has_translucent_alpha
has_translucent_alpha(img) == img.alpha < OPAQUE

\* PIL Image.convert(mode='RGB'): a new plain image; no source format tag,
\* no is_animated attribute, no alpha band.
convert(img, m) ==
    [mode |-> m, format |-> NONE, animated |-> FALSE, alpha |-> OPAQUE,
     dims |-> img.dims]

\* PIL Image.resize: a new plain image of the requested dimensions in the
\* same mode; the alpha extremum of the resampled pixels is al.
resized(img, sz, al) ==
    [mode |-> img.mode, format |-> NONE, animated |-> FALSE, alpha |-> al,
     dims |-> sz]

\* Alpha extrema a resampled image can have: an opaque image stays opaque,
\* a translucent one may lose or keep its translucent pixels.
ResizedAlphas(img) ==
    IF img.mode = "RGBA" /\ img.alpha < OPAQUE THEN AlphaValues ELSE {OPAQUE}

\* Variant of the image setter without the RGBA downgrade.
image_setter_nodowngrade(v, img) ==
    IF ~is_supported(v, img)
    THEN [image |-> img, err |-> "ImageSupportError"]
    ELSE [image |-> img, err |-> "ok"]

\* Image.image setter: stores the image, then validates, then downgrades an
\* RGBA image without translucency by assigning through the setter again.
RECURSIVE image_setter(_, _)
image_setter(v, img) ==
    IF ~is_supported(v, img)
    THEN [image |-> img, err |-> "ImageSupportError"]
    ELSE IF img.mode = "RGBA" /\ ~has_translucent_alpha(img)
         THEN image_setter(v, convert(img, "RGB"))
         ELSE [image |-> img, err |-> "ok"]

\* Variant of the format setter testing the RGBA/PNG rule first.
format_setter_pngfirst(img, prev, fmt) ==
    IF fmt.isList /\ Len(fmt.items) > 1
    THEN IF img.mode = "RGBA" /\ Contains(fmt, "PNG") THEN Str("PNG")
         ELSE IF is_animated(img) /\ Contains(fmt, "GIF") THEN Str("GIF")
         ELSE IF img.mode = "RGB" /\ Contains(fmt, "JPEG") THEN Str("JPEG")
         ELSE prev
    ELSE fmt

\* Image.format setter: prev is the current _format (UNSET if none).
format_setter(img, prev, fmt) ==
    IF fmt.isList /\ Len(fmt.items) > 1
    THEN IF is_animated(img) /\ Contains(fmt, "GIF") THEN Str("GIF")
         ELSE IF img.mode = "RGBA" /\ Contains(fmt, "PNG") THEN Str("PNG")
         ELSE IF img.mode = "RGB" /\ Contains(fmt, "JPEG") THEN Str("JPEG")
         ELSE prev
    ELSE fmt

\* Byte sinks: a BytesIO is the sequence of encodings written to it.  NoneFp
\* is the fp=None default argument; CallerBuffer is a BytesIO the caller
\* supplies.
NoneFp == [isNone |-> TRUE, data |-> <<>>]
CallerBuffer == [isNone |-> FALSE, data |-> <<>>]
BytesIO == [isNone |-> FALSE, data |-> <<>>]
FpArgs == {NoneFp, CallerBuffer}

\* Image.fp setter
fp_setter(fp) == IF ~fp.isNone THEN fp ELSE BytesIO

NoImage == [mode |-> NONE, format |-> NONE, animated |-> FALSE,
            alpha |-> OPAQUE, dims |-> <<0, 0>>]
NoProfile == [variant |-> NONE, image |-> NoImage, size |-> <<0, 0>>,
              format |-> UNSET, fp |-> NoneFp]
\* The last operation performed: its name, its outcome, the image handed to
\* the image setter and the value handed to the format setter.
NoLast == [op |-> "none", result |-> "ok", variant |-> NONE, arg |-> NoImage,
           fmt |-> UNSET]

\* Image.__init__: the four assignments in order; a failing image setter
\* aborts construction and no object exists.
Image__init__(v, img, sz, fmt, fp) ==
    LET r == image_setter(v, img) IN
    IF r.err # "ok"
    THEN [obj |-> NoProfile, err |-> r.err]
    ELSE [obj |-> [variant |-> v, image |-> r.image, size |-> sz,
                   format |-> format_setter(r.image, UNSET, fmt),
                   fp |-> fp_setter(fp)],
          err |-> "ok"]

\* Variant of resize that stores the result without the image setter.
Image_resize_direct(o, al) ==
    [obj |-> [o EXCEPT !.image = resized(o.image, o.size, al)], err |-> "ok"]

\* Image.resize on profile o, the resampled alpha extremum being al: the
\* result is assigned through the image setter.
Image_resize(o, al) ==
    LET r == image_setter(o.variant, resized(o.image, o.size, al)) IN
    [obj |-> [o EXCEPT !.image = r.image], err |-> r.err]

\* What PIL writes for one image.save call: a stream in format f.
Encoding(img, f) == [format |-> f]

\* PIL's encoders: JPEG cannot write RGBA or P; the others convert.
CanWrite(img, f) == ~(f = "JPEG" /\ img.mode \in {"RGBA", "P"})

\* Image.save(**params) into the held buffer.
Image_save(o) ==
    IF o.format = UNSET \/ o.format.isList
    THEN [obj |-> o, err |-> "AttributeError"]
    ELSE IF ~CanWrite(o.image, o.format.items[1])
    THEN [obj |-> o, err |-> "OSError"]
    ELSE [obj |-> [o EXCEPT !.fp.data =
                       Append(@, Encoding(o.image, o.format.items[1]))],
          err |-> "ok"]

(* ------------------- one profile under test: Spec ---------------------- *)
Init ==
    /\ p = NoProfile
    /\ last = NoLast
    /\ objs = <<>>
    /\ bulk = [status |-> "idle", batch |-> <<>>, err |-> "ok", at |-> 0,
               path |-> "", input |-> <<>>]
    /\ disk = {}

Construct ==
    /\ p = NoProfile
    /\ \E v \in Variants, img \in Images, sz \in Sizes, fmt \in FormatArgs,
          fp \in FpArgs :
          LET r == Image__init__(v, img, sz, fmt, fp) IN
          /\ p' = r.obj
          /\ last' = [op |-> "construct", result |-> r.err, variant |-> v,
                      arg |-> img, fmt |-> fmt]
    /\ UNCHANGED <<objs, bulk, disk>>

SetImage ==
    /\ p # NoProfile
    /\ \E img \in Images :
          LET r == image_setter(p.variant, img) IN
          /\ p' = [p EXCEPT !.image = r.image]
          /\ last' = [op |-> "set_image", result |-> r.err,
                      variant |-> p.variant, arg |-> img, fmt |-> UNSET]
    /\ UNCHANGED <<objs, bulk, disk>>

SetFormat ==
    /\ p # NoProfile
    /\ \E fmt \in FormatArgs :
          /\ p' = [p EXCEPT !.format = format_setter(p.image, p.format, fmt)]
          /\ last' = [op |-> "set_format", result |-> "ok",
                      variant |-> p.variant, arg |-> NoImage, fmt |-> fmt]
    /\ UNCHANGED <<objs, bulk, disk>>

Resize ==
    /\ p # NoProfile
    /\ \E al \in ResizedAlphas(p.image) :
          LET r == Image_resize(p, al) IN
          /\ p' = r.obj
          /\ last' = [op |-> "resize", result |-> r.err, variant |-> p.variant,
                      arg |-> resized(p.image, p.size, al), fmt |-> UNSET]
    /\ UNCHANGED <<objs, bulk, disk>>

Save ==
    /\ p # NoProfile
    /\ Len(p.fp.data) < MaxSaves
    /\ LET r == Image_save(p) IN
          /\ p' = r.obj
          /\ last' = [op |-> "save", result |-> r.err, variant |-> p.variant,
                      arg |-> NoImage, fmt |-> UNSET]
    /\ UNCHANGED <<objs, bulk, disk>>

Next == Construct \/ SetImage \/ SetFormat \/ Resize \/ Save

Spec == Init /\ [][Next]_vars

(* --------------------- Bulk over a sequence: SpecBulk ------------------ *)
\* Items handed to Bulk.  An Icon or Wallpaper is a constructed profile; a
\* Compat item is an object exposing the attributes Bulk.resize uses (img,
\* improve_consistency, resize, save(target) and, optionally, name).
Attributes(o) ==
    IF o.kind = "Compat"
    THEN {"img", "improve_consistency", "resize", "save"}
            \cup (IF o.name # NONE THEN {"name"} ELSE {})
    ELSE {"image", "size", "format", "fp", "resize", "save"}

HasAttr(o, a) == a \in Attributes(o)

Item(kind, o, name) ==
    [kind |-> kind, image |-> o.image, size |-> o.size, format |-> o.format,
     fp |-> o.fp, name |-> name, log |-> <<>>]

\* Images and names the batch is built from.
BulkImages == {i \in Images : ~i.animated /\ i.format = NONE}
Names == {NONE, "a"}
Paths == {"", "out/"}

\* improve_consistency: composite over opaque white, then drop alpha.
improve_consistency(o) ==
    [o EXCEPT !.image = convert(o.image, "RGB"),
              !.log = Append(@, "improve_consistency")]

\* resize of a Compat item: the image scaled to the item's size.
Compat_resize(o) ==
    [o EXCEPT !.image = resized(o.image, o.size, o.image.alpha),
              !.log = Append(@, "resize")]

\* save(target) of a Compat item: what it writes to target.
Compat_encode(o) ==
    [format |-> o.format.items[1], mode |-> o.image.mode, dims |-> o.image.dims]

\* One iteration of the loop in Bulk.resize on item o: the item afterwards,
\* the error raised if any, the files written and the buffer produced.
ProcessItem(o, path) ==
    IF ~HasAttr(o, "img")
    THEN [obj |-> o, err |-> "AttributeError", files |-> {}, buffer |-> <<>>]
    ELSE LET o1 == IF o.image.mode = "RGBA" THEN improve_consistency(o) ELSE o
             o2 == Compat_resize(o1)
         IN  IF path # "" /\ ~HasAttr(o2, "name")
             THEN [obj |-> o2, err |-> "AttributeError", files |-> {},
                   buffer |-> <<>>]
             ELSE LET o3 == IF path # ""
                            THEN [o2 EXCEPT !.log = Append(@, "save_path")]
                            ELSE o2
                  IN  [obj |-> [o3 EXCEPT !.log = Append(@, "save_buffer")],
                       err |-> "ok",
                       files |-> IF path # ""
                                 THEN {[name |-> <<path, o2.name>>,
                                        data |-> Compat_encode(o2)]}
                                 ELSE {},
                       buffer |-> <<Compat_encode(o2)>>]

\* Files fs written to file system d, replacing files of the same name.
AddFiles(d, fs) ==
    {f \in d : \A g \in fs : g.name # f.name} \cup fs

\* Variant of Bulk.resize that skips a failing item and carries on.
RECURSIVE Bulk_resize_skip(_, _, _, _, _)
Bulk_resize_skip(os, k, path, batch, d) ==
    IF k > Len(os)
    THEN [status |-> "returned", objs |-> os, batch |-> batch, disk |-> d,
          err |-> "ok", at |-> 0]
    ELSE LET r == ProcessItem(os[k], path) IN
         IF r.err # "ok"
         THEN Bulk_resize_skip([os EXCEPT ![k] = r.obj], k + 1, path, batch, d)
         ELSE Bulk_resize_skip([os EXCEPT ![k] = r.obj], k + 1, path,
                               Append(batch, r.buffer), AddFiles(d, r.files))

\* Bulk.resize from item k on: os are the items, batch the local list, d the
\* file system.  An error leaves the loop at once and nothing is returned.
RECURSIVE Bulk_resize(_, _, _, _, _)
Bulk_resize(os, k, path, batch, d) ==
    IF k > Len(os)
    THEN [status |-> "returned", objs |-> os, batch |-> batch, disk |-> d,
          err |-> "ok", at |-> 0]
    ELSE LET r == ProcessItem(os[k], path) IN
         IF r.err # "ok"
         THEN [status |-> "raised", objs |-> [os EXCEPT ![k] = r.obj],
               batch |-> <<>>, disk |-> d, err |-> r.err, at |-> k]
         ELSE Bulk_resize([os EXCEPT ![k] = r.obj], k + 1, path,
                          Append(batch, r.buffer), AddFiles(d, r.files))

\* A profile constructed with the default format and buffer joins the batch.
BulkAddProfile ==
    /\ bulk.status = "idle"
    /\ Len(objs) < MaxObjs
    /\ \E v \in Variants, img \in BulkImages, sz \in Sizes :
          LET r == Image__init__(v, img, sz, Str("WEBP"), NoneFp) IN
          /\ r.err = "ok"
          /\ objs' = Append(objs, Item(v, r.obj, NONE))
    /\ UNCHANGED <<p, last, bulk, disk>>

BulkAddCompat ==
    /\ bulk.status = "idle"
    /\ Len(objs) < MaxObjs
    /\ \E img \in BulkImages, sz \in Sizes, n \in Names :
          objs' = Append(objs,
                         Item("Compat",
                              [image |-> img, size |-> sz,
                               format |-> Str("WEBP"), fp |-> BytesIO], n))
    /\ UNCHANGED <<p, last, bulk, disk>>

BulkResize ==
    /\ bulk.status = "idle"
    /\ \E path \in Paths :
          LET r == Bulk_resize(objs, 1, path, <<>>, disk) IN
          /\ objs' = r.objs
          /\ disk' = r.disk
          /\ bulk' = [status |-> r.status, batch |-> r.batch, err |-> r.err,
                      at |-> r.at, path |-> path, input |-> objs]
    /\ UNCHANGED <<p, last>>

NextBulk == BulkAddProfile \/ BulkAddCompat \/ BulkResize

SpecBulk == Init /\ [][NextBulk]_vars

(* ----------------------- properties of one profile --------------------- *)
\* The support invariant of the data model, read off the variant's table.
InTable(v, img) ==
    /\ img.mode \in DOMAIN SUPPORTED_IMAGES(v)
    /\ (img.format = NONE \/ img.format \in SUPPORTED_IMAGES(v)[img.mode])

Candidates(fmt) == {fmt.items[k] : k \in 1..Len(fmt.items)}
IsPreferenceList(fmt) == fmt.isList /\ Len(fmt.items) > 1

Rule1(img, fmt) == img.animated /\ "GIF" \in Candidates(fmt)
Rule2(img, fmt) == img.mode = "RGBA" /\ "PNG" \in Candidates(fmt)
Rule3(img, fmt) == img.mode = "RGB" /\ "JPEG" \in Candidates(fmt)

FormatAssigned ==
    \/ last.op = "construct" /\ last.result = "ok"
    \/ last.op = "set_format"

\* C1: for each variant and every image, construction succeeds iff the mode
\* is a key of SUPPORTED_IMAGES and the source format is absent or listed
\* for that mode; otherwise it fails with ImageSupportError.
C1_ConstructIffSupported ==
    last.op = "construct" =>
        /\ (last.result = "ok") <=> InTable(last.variant, last.arg)
        /\ last.result \in {"ok", "ImageSupportError"}
        /\ (last.result = "ok") <=> (p # NoProfile)

C1_Witness ==
    /\ last.op = "construct" /\ last.result = "ImageSupportError"
    /\ last.variant = "Icon" /\ last.arg.mode = "RGBA"
    /\ last.arg.format = "JPEG"

\* C2: in every state of a constructed profile, after any sequence of
\* accepted or rejected image assignments and resizes, the held image
\* satisfies the support invariant.
C2_HeldImageSupported ==
    p # NoProfile => InTable(p.variant, p.image)

\* C3: a preference list of more than one candidate is resolved by the
\* first matching rule, in the order animated/GIF, RGBA/PNG, RGB/JPEG, on
\* the held image; only membership of the candidates matters.
C3_FirstMatchingRule ==
    (FormatAssigned /\ IsPreferenceList(last.fmt)) =>
        /\ Rule1(p.image, last.fmt) => p.format = Str("GIF")
        /\ (~Rule1(p.image, last.fmt) /\ Rule2(p.image, last.fmt))
              => p.format = Str("PNG")
        /\ (~Rule1(p.image, last.fmt) /\ ~Rule2(p.image, last.fmt)
              /\ Rule3(p.image, last.fmt)) => p.format = Str("JPEG")

C3_Witness ==
    /\ last.op = "set_format" /\ last.fmt = List(<<"PNG", "GIF">>)
    /\ p.image.animated /\ p.image.mode = "RGBA"
    /\ p.format = Str("GIF")

\* C4 (as stated): a static RGBA image, opaque or not, constructed with
\* ['PNG','JPEG'] resolves to PNG.
C4_RgbaResolvesToPng ==
    (/\ last.op = "construct" /\ last.result = "ok"
     /\ last.arg.mode = "RGBA" /\ ~last.arg.animated
     /\ last.fmt = List(<<"PNG", "JPEG">>))
        => p.format = Str("PNG")

\* C4 (amended): a static RGBA image constructed with ['PNG','JPEG']
\* resolves to PNG when it has translucent alpha, and to JPEG when it is
\* fully opaque (it is then held as RGB).
C4_RgbaResolvesByAlpha ==
    (/\ last.op = "construct" /\ last.result = "ok"
     /\ last.arg.mode = "RGBA" /\ ~last.arg.animated
     /\ last.fmt = List(<<"PNG", "JPEG">>))
        => p.format = IF last.arg.alpha < OPAQUE THEN Str("PNG") ELSE Str("JPEG")

C4_Witness ==
    /\ last.op = "construct" /\ last.result = "ok"
    /\ last.arg.mode = "RGBA" /\ ~last.arg.animated
    /\ last.arg.alpha = OPAQUE
    /\ last.fmt = List(<<"PNG", "JPEG">>)
    /\ p.format = Str("JPEG")

\* C5: after an accepted image assignment, an opaque RGBA image is held as
\* RGB, a translucent RGBA image is held unchanged, and an image of another
\* mode keeps its mode.
C5_DowngradeOpaqueRgba ==
    (last.op \in {"construct", "set_image", "resize"} /\ last.result = "ok") =>
        /\ (last.arg.mode = "RGBA" /\ last.arg.alpha = OPAQUE)
              => p.image.mode = "RGB"
        /\ (last.arg.mode = "RGBA" /\ last.arg.alpha < OPAQUE)
              => p.image = last.arg
        /\ last.arg.mode # "RGBA" => p.image.mode = last.arg.mode

C5_Witness ==
    /\ last.op = "set_image" /\ last.result = "ok"
    /\ last.arg.mode = "RGBA" /\ last.arg.alpha = OPAQUE
    /\ last.arg.format = "PNG"
    /\ p.image.mode = "RGB"

\* C8 (as stated): a resize that returns leaves the held image with
\* exactly the profile's size, and changes neither size, format, buffer
\* nor the image's mode.
C8_ResizeFrame ==
    [][(Resize /\ last'.op = "resize" /\ last'.result = "ok") =>
          /\ p'.image.dims = p.size
          /\ p'.size = p.size /\ p'.format = p.format /\ p'.fp = p.fp
          /\ p'.image.mode = p.image.mode]_vars

\* C8 (amended): as above, except that the mode of an RGBA image whose
\* resampled pixels keep no translucency becomes RGB.
C8_ResizeFrameDowngrade ==
    [][(Resize /\ last'.op = "resize" /\ last'.result = "ok") =>
          /\ p'.image.dims = p.size
          /\ p'.size = p.size /\ p'.format = p.format /\ p'.fp = p.fp
          /\ p'.image.mode =
                IF p.image.mode = "RGBA" /\ last'.arg.alpha = OPAQUE
                THEN "RGB" ELSE p.image.mode]_vars

C8_Witness ==
    /\ last.op = "resize" /\ last.result = "ok"
    /\ last.arg.mode = "RGBA" /\ last.arg.alpha = OPAQUE
    /\ p.image.mode = "RGB" /\ p.image.dims = p.size
    /\ Len(p.fp.data) > 0

\* C9: a preference list of more than one candidate that matches none of
\* the three rules makes the construction or assignment fail.
C9_UnmatchedListFails ==
    (/\ last.op \in {"construct", "set_format"}
     /\ IsPreferenceList(last.fmt)
     /\ ~Rule1(p.image, last.fmt) /\ ~Rule2(p.image, last.fmt)
     /\ ~Rule3(p.image, last.fmt))
        => last.result # "ok"

(* --------------------------- properties of Bulk ------------------------ *)
IsProfile(o) == o.kind \in Variants
Finished == bulk.status # "idle"
N == Len(bulk.input)

\* What the buffer of a processed item must hold: the encoding of its image
\* at the item's size.
EncodesResized(buf, o) ==
    /\ Len(buf) = 1
    /\ buf[1].dims = o.size
    /\ buf[1].dims = o.image.dims
    /\ buf[1].mode = o.image.mode

\* C6: Bulk.resize over N constructed Icon/Wallpaper profiles returns
\* exactly N buffers, the i-th being the encoding of the i-th profile's
\* resized image.
C6_ReturnsOneBufferPerProfile ==
    (Finished /\ \A i \in 1..N : IsProfile(bulk.input[i])) =>
        /\ bulk.status = "returned"
        /\ Len(bulk.batch) = N
        /\ \A i \in 1..N : EncodesResized(bulk.batch[i], objs[i])

\* C7: for every RGBA Icon that Bulk.resize reaches, the consistency step
\* runs before the resize and before any encode, and the encoded image has
\* no alpha channel; items of another mode skip the step.
C7_RgbaIconFlattenedFirst ==
    Finished =>
        \A i \in 1..N :
            (bulk.input[i].kind = "Icon"
             /\ (bulk.status = "returned" \/ i <= bulk.at)) =>
                IF bulk.input[i].image.mode = "RGBA"
                THEN /\ Len(objs[i].log) >= 2
                     /\ objs[i].log[1] = "improve_consistency"
                     /\ objs[i].log[2] = "resize"
                     /\ objs[i].image.mode # "RGBA"
                ELSE \A k \in 1..Len(objs[i].log) :
                        objs[i].log[k] # "improve_consistency"

\* An item Bulk.resize has fully processed: resized, encoded, and written
\* under path + name if a path was given.
Processed(i) ==
    /\ objs[i].image.dims = objs[i].size
    /\ \E k \in 1..Len(objs[i].log) : objs[i].log[k] = "resize"
    /\ objs[i].log[Len(objs[i].log)] = "save_buffer"
    /\ bulk.path # "" =>
          \E f \in disk : f.name = <<bulk.path, objs[i].name>>

\* Item o cannot be processed with this path: it lacks the image attribute
\* Bulk reads, or the name the path branch needs.
Fails(o, path) ==
    \/ o.kind # "Compat"
    \/ path # "" /\ o.name = NONE

\* C10: when item k fails, the failure propagates at once: nothing is
\* returned, the items after k are untouched and the items before k stay
\* processed.
C10_FailurePropagates ==
    (Finished /\ \E k \in 1..N : Fails(bulk.input[k], bulk.path)) =>
        /\ bulk.status = "raised"
        /\ bulk.at \in 1..N
        /\ Fails(bulk.input[bulk.at], bulk.path)
        /\ \A i \in 1..N : i < bulk.at => ~Fails(bulk.input[i], bulk.path)
        /\ bulk.err # "ok"
        /\ bulk.batch = <<>>
        /\ \A i \in 1..N : i > bulk.at => objs[i] = bulk.input[i]
        /\ \A i \in 1..N : i < bulk.at => Processed(i)

C10_Witness ==
    /\ bulk.status = "raised" /\ bulk.at = 2 /\ bulk.path # ""
    /\ Processed(1)
    /\ objs[2] # bulk.input[2]
====
